---------------------------- MODULE Spec2Model ----------------------------
(***************************************************************************)
(* State-machine model of the 4D Nexus core:                               *)
(*   - CausalAgent (python/agents/causal_agent.py): fact registry, the     *)
(*     networkx DiGraph of fact/command nodes, coherence, causal chains;   *)
(*   - CognitiveOrchestrator (src/orchestrator.py): per-context state and  *)
(*     the rule-based 4D decomposition.                                    *)
(*                                                                         *)
(* Python values are modelled as follows.                                  *)
(*   str        a TLA+ string (Len, SubSeq and \o act on its characters)   *)
(*   dict       an insertion-ordered dictionary [keys, at]: keys is the    *)
(*              sequence of keys in insertion order, at the mapping        *)
(*   record     a small dict with fixed field names: a TLA+ function from  *)
(*              field names to values (field order is not modelled)        *)
(*   float      an exact rational [num, den] in lowest terms               *)
(*   argument   a value whose Python type the callee does not control is   *)
(*              tagged: [type |-> "str" | "int" | "dict" | "list", val]    *)
(*   datetime.now().isoformat()   IsoFormat of a clock that advances by    *)
(*              one on every read                                          *)
(***************************************************************************)
EXTENDS Integers, Sequences, FiniteSets, TLC

VARIABLES
    graph,      \* CausalAgent.graph: [node, adj], two ordered dictionaries
    facts_db,   \* CausalAgent.facts_db: ordered dictionary id -> fact record
    contexts,   \* CognitiveOrchestrator.contexts: ordered dictionary id -> reference
    heap,       \* the context dict objects: reference -> context record
    decomposition_rules,
                \* CognitiveOrchestrator.decomposition_rules: command type -> list of
                \* base items
    frames,     \* request handlers inside process()/clear_context(): thread -> frame
    clock,      \* the wall clock read by datetime.now()
    ret,        \* the last completed call: operation, arguments, outcome
    built,      \* history: <<command text, node id>> of every completed build_4d_graph,
                \* in call order
    linked,     \* history: <<source, target>> of every add_edge call made
    twin,       \* a second CausalAgent, for comparing two agents: [graph, facts_db,
                \* clock, ret], its own clock and its last completed call
    calls       \* history: [made, cleared, last]: made[id] counts the process() calls
                \* begun on id since it was last removed, cleared holds the ids removed
                \* so far, last[id] is the command of the latest of the calls counted

vars == <<graph, facts_db, contexts, heap, decomposition_rules, frames, clock, built, linked,
          calls, twin, ret>>

----------------------------------------------------------------------------
(* Bounds of the model.                                                    *)

\* No handler that reads the clock starts once the clock has reached MaxClock.
MaxClock == 3

\* No process() or list_contexts() of the longer sequential runs starts once the
\* clock has reached MaxContextClock.
MaxContextClock == 5

\* No overlapping process() call begins once the clock has reached MaxOverlapClock.
MaxOverlapClock == 2

\* Largest max_depth passed to get_causal_chain.
MaxDepth == 1

----------------------------------------------------------------------------
(* Python strings.                                                         *)

CharAt(s, i) == SubSeq(s, i, i)

Upper == <<"A","B","C","D","E","F","G","H","I","J","K","L","M",
           "N","O","P","Q","R","S","T","U","V","W","X","Y","Z">>
LowerOf == <<"a","b","c","d","e","f","g","h","i","j","k","l","m",
             "n","o","p","q","r","s","t","u","v","w","x","y","z">>

LowerChar(c) ==
    IF \E i \in 1..26 : Upper[i] = c
    THEN LowerOf[CHOOSE i \in 1..26 : Upper[i] = c]
    ELSE c

\* str.lower()
RECURSIVE Lower(_)
Lower(s) ==
    IF Len(s) = 0 THEN ""
    ELSE LowerChar(CharAt(s, 1)) \o Lower(SubSeq(s, 2, Len(s)))

\* `word in s` for strings: substring test
Contains(word, s) ==
    \E i \in 1..(Len(s) - Len(word) + 1) : SubSeq(s, i, i + Len(word) - 1) = word

\* any(word in s for word in words)
AnyIn(words, s) == \E k \in 1..Len(words) : Contains(words[k], s)

PyStr(s) == [type |-> "str", val |-> s]
PyInt(n) == [type |-> "int", val |-> n]
PyDict(items) == [type |-> "dict", val |-> items]
PyList(elems) == [type |-> "list", val |-> elems]

IsStr(v) == v.type = "str"

----------------------------------------------------------------------------
(* Python dict, insertion ordered.                                         *)

EmptyDict == [keys |-> <<>>, at |-> <<>>]

KeySet(d) == {d.keys[i] : i \in 1..Len(d.keys)}
DictHas(d, k) == k \in KeySet(d)
DictLen(d) == Len(d.keys)

\* d[k] = v: a new key is appended, an existing key keeps its position
DictSetAppendAlways(d, k, v) ==
    [keys |-> Append(d.keys, k),
     at   |-> [x \in KeySet(d) \cup {k} |-> IF x = k THEN v ELSE d.at[x]]]

DictSet(d, k, v) ==
    [keys |-> IF DictHas(d, k) THEN d.keys ELSE Append(d.keys, k),
     at   |-> [x \in KeySet(d) \cup {k} |-> IF x = k THEN v ELSE d.at[x]]]

\* del d[k]
DictDel(d, k) ==
    [keys |-> SelectSeq(d.keys, LAMBDA x : x # k),
     at   |-> [x \in KeySet(d) \ {k} |-> d.at[x]]]

\* {**a, **b} on records: fields of b win
Merge(a, b) ==
    [f \in DOMAIN a \cup DOMAIN b |-> IF f \in DOMAIN b THEN b[f] ELSE a[f]]

----------------------------------------------------------------------------
(* Floats as exact rationals.                                              *)

RECURSIVE GCD(_, _)
GCD(a, b) == IF b = 0 THEN a ELSE GCD(b, a % b)

Rat(n, d) == LET g == GCD(n, d) IN [num |-> n \div g, den |-> d \div g]
Zero == Rat(0, 1)
One == Rat(1, 1)
RatLeq(a, b) == a.num * b.den <= b.num * a.den
RatMin(a, b) == IF RatLeq(a, b) THEN a ELSE b

\* datetime.now().isoformat() of the clock value t
IsoFormat(t) == "now+" \o ToString(t)


----------------------------------------------------------------------------
(* networkx.DiGraph as used by CausalAgent: graph.node is G._node (node id *)
(* -> attribute record), graph.adj is G._adj flattened to an ordered       *)
(* dictionary <<source, target>> -> attribute record.                      *)

NoAttrs == <<>>

\* G.add_node(n, **attr): a new node gets attr, an existing node's record is updated
AddNode(g, n, attr) ==
    [g EXCEPT !.node = DictSet(g.node, n,
        IF DictHas(g.node, n) THEN Merge(g.node.at[n], attr) ELSE attr)]

\* add_edge of a multigraph: every call adds an edge, also between linked nodes
AddEdgeParallel(g, u, v, attr) ==
    LET g1 == IF DictHas(g.node, u) THEN g ELSE AddNode(g, u, NoAttrs)
        g2 == IF DictHas(g1.node, v) THEN g1 ELSE AddNode(g1, v, NoAttrs)
    IN  [g2 EXCEPT !.adj = DictSetAppendAlways(g2.adj, <<u, v>>, attr)]

\* G.add_edge(u, v, **attr): missing endpoints are created with no attributes,
\* an existing edge's record is updated
AddEdge(g, u, v, attr) ==
    LET g1 == IF DictHas(g.node, u) THEN g ELSE AddNode(g, u, NoAttrs)
        g2 == IF DictHas(g1.node, v) THEN g1 ELSE AddNode(g1, v, NoAttrs)
        old == IF DictHas(g2.adj, <<u, v>>) THEN g2.adj.at[<<u, v>>] ELSE NoAttrs
    IN  [g2 EXCEPT !.adj = DictSet(g2.adj, <<u, v>>, Merge(old, attr))]

\* list(G.adj[v]): the successors of v in insertion order
Successors(g, v) ==
    LET es == SelectSeq(g.adj.keys, LAMBDA e : e[1] = v)
    IN  [i \in 1..Len(es) |-> es[i][2]]

\* for w in adj[v]: if w not in paths: paths[w] = paths[v] + [w]; nextlevel[w] = 1
RECURSIVE VisitNeighbours(_, _, _, _)
VisitNeighbours(st, v, ws, i) ==
    IF i > Len(ws) THEN st
    ELSE LET w == ws[i]
         IN  IF DictHas(st.paths, w)
             THEN VisitNeighbours(st, v, ws, i + 1)
             ELSE VisitNeighbours(
                    [paths     |-> DictSet(st.paths, w, Append(st.paths.at[v], w)),
                     nextlevel |-> Append(st.nextlevel, w)], v, ws, i + 1)

\* for v in thislevel: ...
RECURSIVE VisitLevel(_, _, _, _)
VisitLevel(g, st, thislevel, i) ==
    IF i > Len(thislevel) THEN st
    ELSE VisitLevel(g,
            VisitNeighbours(st, thislevel[i], Successors(g, thislevel[i]), 1),
            thislevel, i + 1)

\* while nextlevel and cutoff > level: ...
RECURSIVE ShortestPathLevels(_, _, _, _, _)
ShortestPathLevels(g, nextlevel, paths, cutoff, level) ==
    IF Len(nextlevel) = 0 \/ ~(cutoff > level) THEN paths
    ELSE LET st == VisitLevel(g, [paths |-> paths, nextlevel |-> <<>>], nextlevel, 1)
         IN  ShortestPathLevels(g, st.nextlevel, st.paths, cutoff, level + 1)

\* nx.single_source_shortest_path(G, source, cutoff): ordered dict target -> path
single_source_shortest_path(g, source, cutoff) ==
    ShortestPathLevels(g, <<source>>, DictSet(EmptyDict, source, <<source>>), cutoff, 0)

----------------------------------------------------------------------------
(* CausalAgent.                                                            *)

DefaultAttribution == "@AxiomHive @devdollzai"

base_facts ==
    << <<"mom_birthday",
         [content |-> "Mom's birthday is 2025-05-27", timestamp |-> "2025-09-20T00:00:00Z",
          type |-> "temporal", attribution |-> "@AxiomHive"]>>,
       <<"gym_move",
         [content |-> "Planning gym membership and SF move", timestamp |-> "2025-09-20T00:00:00Z",
          type |-> "action", attribution |-> "@devdollzai"]>>,
       <<"ecosystem_bind",
         [content |-> "AxiomHive ecosystem binding active", timestamp |-> "2025-09-20T00:00:00Z",
          type |-> "system", attribution |-> "@AxiomHive @devdollzai"]>> >>

SeedIds == {base_facts[i][1] : i \in 1..Len(base_facts)}

\* for fact_id, fact_data in base_facts.items(): facts_db[fact_id] = ...; add_node(...)
RECURSIVE initialize_base_facts(_, _)
initialize_base_facts(a, i) ==
    IF i > Len(base_facts) THEN a
    ELSE initialize_base_facts(
            [graph    |-> AddNode(a.graph, base_facts[i][1], base_facts[i][2]),
             facts_db |-> DictSet(a.facts_db, base_facts[i][1], base_facts[i][2])],
            i + 1)

\* CausalAgent(): empty DiGraph, empty facts_db, then the base facts
NewAgent ==
    initialize_base_facts([graph |-> [node |-> EmptyDict, adj |-> EmptyDict],
                           facts_db |-> EmptyDict], 1)

\* hashlib.sha256(command.encode()).hexdigest()[:8], tabulated for the
\* command texts of the model (the values are the real digests)
Sha256Hex8(command) ==
    CASE command = "hello"              -> "2cf24dba"
      [] command = "plan SF move"       -> "f087cb3b"
      [] command = "4d gym date"        -> "635928dd"
      [] command = "Bind birthday move" -> "27f376f7"
      [] command = ""                   -> "e3b0c442"

\* hashlib.sha256(str(self.graph.nodes).encode()).hexdigest()[:8]: the digest
\* is kept symbolic, as the text it is taken of (the node ids in view order)
NodeViewDigest(g) == [sha256_of |-> g.node.keys]

TemporalRule(command_lower) ==
    Contains("birthday", command_lower) \/ Contains("date", command_lower)
ActionRule(command_lower) == AnyIn(<<"move", "plan", "gym", "sf">>, command_lower)
SystemRule(command_lower) == AnyIn(<<"ecosystem", "bind", "nexus", "4d">>, command_lower)

\* the three rules as an if / elif chain: only the first matching rule links
BuildCausalRelationshipsFirstMatch(g, node_id, command) ==
    LET command_lower == Lower(command)
    IN  IF TemporalRule(command_lower)
        THEN AddEdge(g, node_id, "mom_birthday", [relation |-> "temporal"])
        ELSE IF ActionRule(command_lower)
        THEN AddEdge(g, node_id, "gym_move", [relation |-> "action"])
        ELSE IF SystemRule(command_lower)
        THEN AddEdge(g, node_id, "ecosystem_bind", [relation |-> "system"])
        ELSE g

\* the action rule linking in both directions
BuildCausalRelationshipsBothWays(g, node_id, command) ==
    LET command_lower == Lower(command)
        g1 == IF TemporalRule(command_lower)
              THEN AddEdge(g, node_id, "mom_birthday", [relation |-> "temporal"]) ELSE g
        g2 == IF ActionRule(command_lower)
              THEN AddEdge(AddEdge(g1, node_id, "gym_move", [relation |-> "action"]),
                           "gym_move", node_id, [relation |-> "action"])
              ELSE g1
        g3 == IF SystemRule(command_lower)
              THEN AddEdge(g2, node_id, "ecosystem_bind", [relation |-> "system"]) ELSE g2
    IN  g3

_build_causal_relationships(g, node_id, command) ==
    LET command_lower == Lower(command)
        g1 == IF TemporalRule(command_lower)
              THEN AddEdge(g, node_id, "mom_birthday", [relation |-> "temporal"]) ELSE g
        g2 == IF ActionRule(command_lower)
              THEN AddEdge(g1, node_id, "gym_move", [relation |-> "action"]) ELSE g1
        g3 == IF SystemRule(command_lower)
              THEN AddEdge(g2, node_id, "ecosystem_bind", [relation |-> "system"]) ELSE g2
    IN  g3

\* the add_edge calls _build_causal_relationships makes, as <<source, target>>
EdgeCalls(node_id, command) ==
    LET command_lower == Lower(command)
    IN  (IF TemporalRule(command_lower) THEN {<<node_id, "mom_birthday">>} ELSE {})
        \cup (IF ActionRule(command_lower) THEN {<<node_id, "gym_move">>} ELSE {})
        \cup (IF SystemRule(command_lower) THEN {<<node_id, "ecosystem_bind">>} ELSE {})

\* the connectivity ratio returned without the min(..., 1.0)
CoherenceUncapped(g) ==
    IF DictLen(g.node) < 2 THEN Zero
    ELSE Rat(DictLen(g.adj), DictLen(g.node))

_calculate_coherence(g) ==
    IF DictLen(g.node) < 2 THEN Zero
    ELSE RatMin(Rat(DictLen(g.adj), DictLen(g.node)), One)

\* the outcome of a call on the agent: the agent's state and the clock after it,
\* and what the call returned or raised
Raised(a, now, exc) ==
    [graph |-> a.graph, facts_db |-> a.facts_db, clock |-> now, status |-> "raised", value |-> exc]
Returned(a, now, v) ==
    [graph |-> a.graph, facts_db |-> a.facts_db, clock |-> now, status |-> "ok", value |-> v]

\* build_4d_graph with a node id taken of the command text and the time of the call
BuildGraphTimeSaltedId(a, command, now) ==
    IF ~IsStr(command) THEN Raised(a, now, "AttributeError")
    ELSE LET command_hash == Sha256Hex8(command.val) \o "@" \o IsoFormat(now)
             g1 == AddNode(a.graph, command_hash,
                      [content |-> command.val, timestamp |-> IsoFormat(now),
                       type |-> "command", attribution |-> DefaultAttribution])
             g2 == _build_causal_relationships(g1, command_hash, command.val)
         IN  Merge(Returned([graph |-> g2, facts_db |-> a.facts_db], now + 1,
                            [coherence  |-> _calculate_coherence(g2),
                             nodes      |-> DictLen(g2.node),
                             edges      |-> DictLen(g2.adj),
                             graph_hash |-> NodeViewDigest(g2)]),
                   [node_id |-> command_hash])

\* build_4d_graph(command) at clock reading now; command is a tagged argument.
\* node_id is the local command_hash, kept for the history variables
build_4d_graph(a, command, now) ==
    IF ~IsStr(command) THEN Raised(a, now, "AttributeError")     \* command.encode()
    ELSE LET command_hash == Sha256Hex8(command.val)
             g1 == AddNode(a.graph, command_hash,
                      [content |-> command.val, timestamp |-> IsoFormat(now),
                       type |-> "command", attribution |-> DefaultAttribution])
             g2 == _build_causal_relationships(g1, command_hash, command.val)
         IN  Merge(Returned([graph |-> g2, facts_db |-> a.facts_db], now + 1,
                            [coherence  |-> _calculate_coherence(g2),
                             nodes      |-> DictLen(g2.node),
                             edges      |-> DictLen(g2.adj),
                             graph_hash |-> NodeViewDigest(g2)]),
                   [node_id |-> command_hash])

\* integrate_facts' loop from entry i on
RECURSIVE IntegrateLoop(_, _, _, _, _)
IntegrateLoop(a, items, i, now, processed_facts) ==
    IF i > Len(items) THEN Returned(a, now, processed_facts)
    ELSE LET fact_id == items[i][1]
             given == items[i][2]
             fact_content == IF IsStr(given) THEN PyDict([content |-> given.val]) ELSE given
         IN  IF fact_content.type # "dict" THEN Raised(a, now, "TypeError")   \* **fact_content
             ELSE LET fact == Merge(fact_content.val,
                                [timestamp   |-> IsoFormat(now),
                                 attribution |-> IF "attribution" \in DOMAIN fact_content.val
                                                 THEN fact_content.val["attribution"]
                                                 ELSE DefaultAttribution])
                  IN  IntegrateLoop(
                        [graph    |-> AddNode(a.graph, fact_id, fact),
                         facts_db |-> DictSet(a.facts_db, fact_id, fact)],
                        items, i + 1, now + 1, Append(processed_facts, fact_id))

\* integrate_facts that enters the facts in the registry and not in the graph
IntegrateFactsRegistryOnly(a, facts_data, now) ==
    IF facts_data.type # "dict" THEN Raised(a, now, "AttributeError")
    ELSE LET r == IntegrateLoop(a, facts_data.val, 1, now, <<>>)
         IN  [r EXCEPT !.graph = a.graph]

\* a registry that is rebuilt from the payload instead of updated
IntegrateFactsRebuilding(a, facts_data, now) ==
    IF facts_data.type # "dict" THEN Raised(a, now, "AttributeError")
    ELSE IntegrateLoop([graph |-> a.graph, facts_db |-> EmptyDict], facts_data.val, 1, now, <<>>)

\* integrate_facts that passes over the entries given as plain strings
IntegrateFactsSkippingStrings(a, facts_data, now) ==
    IF facts_data.type # "dict" THEN Raised(a, now, "AttributeError")
    ELSE IntegrateLoop(a, SelectSeq(facts_data.val, LAMBDA item : ~IsStr(item[2])),
                       1, now, <<>>)

\* integrate_facts that also links the first fact it stored to ecosystem_bind
IntegrateFactsLinking(a, facts_data, now) ==
    IF facts_data.type # "dict" THEN Raised(a, now, "AttributeError")
    ELSE LET r == IntegrateLoop(a, facts_data.val, 1, now, <<>>)
         IN  IF r.status = "ok" /\ Len(r.value) > 0
             THEN [r EXCEPT !.graph = AddEdge(r.graph, r.value[1], "ecosystem_bind",
                                              [relation |-> "system"])]
             ELSE r

\* integrate_facts(facts_data); facts_data is a tagged argument, a mapping is
\* given by its items() in order
integrate_facts(a, facts_data, now) ==
    IF facts_data.type # "dict" THEN Raised(a, now, "AttributeError")   \* facts_data.items()
    ELSE IntegrateLoop(a, facts_data.val, 1, now, <<>>)

get_facts(a, now) ==
    Returned(a, now + 1,
                [facts       |-> a.facts_db,
                 graph_stats |-> [nodes     |-> DictLen(a.graph.node),
                                  edges     |-> DictLen(a.graph.adj),
                                  coherence |-> _calculate_coherence(a.graph)],
                 timestamp   |-> IsoFormat(now)])

\* [self.graph.edges[edge] for edge in self.graph.edges(node)]
Relations(g, node) ==
    LET succ == Successors(g, node)
    IN  [i \in 1..Len(succ) |-> g.adj.at[<<node, succ[i]>>]]

NodeRecord(g, node) ==
    [node |-> node, data |-> g.node.at[node], relations |-> Relations(g, node)]

\* for node in path: chain.append({...}), where path is what the outer loop
\* binds: a key of the paths dictionary, a node id string, so node runs over
\* its characters; self.graph.nodes[node] raises KeyError for a missing node
RECURSIVE ChainOf(_, _, _, _)
ChainOf(g, path, j, chain) ==
    IF j > Len(path) THEN [status |-> "ok", value |-> chain]
    ELSE LET node == CharAt(path, j)
         IN  IF ~DictHas(g.node, node) THEN [status |-> "raised", value |-> "KeyError"]
             ELSE ChainOf(g, path, j + 1, Append(chain, NodeRecord(g, node)))

\* for path in nx.single_source_shortest_path(...): iterates the dictionary's keys
RECURSIVE ChainsLoop(_, _, _, _)
ChainsLoop(g, targets, i, chains) ==
    IF i > Len(targets) THEN [status |-> "ok", value |-> chains]
    ELSE LET c == ChainOf(g, targets[i], 1, <<>>)
         IN  IF c.status = "raised" THEN c
             ELSE ChainsLoop(g, targets, i + 1, Append(chains, c.value))

\* get_causal_chain without the membership test of its first line
GetCausalChainUnguarded(a, now, start_node, max_depth) ==
    LET paths == single_source_shortest_path(a.graph, start_node, max_depth)
        r == ChainsLoop(a.graph, paths.keys, 1, <<>>)
    IN  IF r.status = "ok" THEN Returned(a, now, r.value) ELSE Raised(a, now, r.value)

get_causal_chain(a, now, start_node, max_depth) ==
    IF ~DictHas(a.graph.node, start_node) THEN Returned(a, now, <<>>)
    ELSE LET paths == single_source_shortest_path(a.graph, start_node, max_depth)
             r == ChainsLoop(a.graph, paths.keys, 1, <<>>)
         IN  IF r.status = "ok" THEN Returned(a, now, r.value) ELSE Raised(a, now, r.value)

----------------------------------------------------------------------------
(* CognitiveOrchestrator: the decomposition rules.                         *)

\* the table _load_decomposition_rules() returns
_load_decomposition_rules ==
    [planning |->
        <<"Break down into actionable steps",
          "Identify dependencies and resources",
          "Create timeline and milestones",
          "Define success criteria",
          "Map potential risks and mitigations">>,
     analysis |->
        <<"Gather relevant information",
          "Identify key factors and variables",
          "Analyze relationships and patterns",
          "Draw conclusions and insights",
          "Provide recommendations">>,
     integration |->
        <<"Map existing ecosystem components",
          "Identify integration points",
          "Define data flow and interfaces",
          "Plan migration strategy",
          "Test integration scenarios">>,
     temporal |->
        <<"Establish time-based relationships",
          "Create temporal sequences",
          "Map cause-effect chains",
          "Define temporal constraints",
          "Plan scheduling and timing">>]

\* a classifier that tests the temporal keywords before the others
ClassifyTemporalFirst(command) ==
    IF AnyIn(<<"when", "time", "date", "schedule">>, command) THEN "temporal"
    ELSE IF AnyIn(<<"plan", "move", "schedule", "organize">>, command) THEN "planning"
    ELSE IF AnyIn(<<"analyze", "examine", "study", "review">>, command) THEN "analysis"
    ELSE IF AnyIn(<<"integrate", "combine", "merge", "connect">>, command) THEN "integration"
    ELSE "generic"

\* command is the lower-cased text
_classify_command(command) ==
    IF AnyIn(<<"plan", "move", "schedule", "organize">>, command) THEN "planning"
    ELSE IF AnyIn(<<"analyze", "examine", "study", "review">>, command) THEN "analysis"
    ELSE IF AnyIn(<<"integrate", "combine", "merge", "connect">>, command) THEN "integration"
    ELSE IF AnyIn(<<"when", "time", "date", "schedule">>, command) THEN "temporal"
    ELSE "generic"

_add_temporal_dimension(command, base_items) ==
    LET t1 == IF Contains("birthday", command)
              THEN base_items \o <<"Schedule around 2025-05-27", "Plan celebration activities">>
              ELSE base_items
        t2 == IF AnyIn(<<"move", "relocate", "transfer">>, command)
              THEN t1 \o <<"Create moving timeline", "Schedule packing and transportation">>
              ELSE t1
        t3 == IF Contains("gym", command)
              THEN t2 \o <<"Research gym membership options", "Schedule gym visits and routines">>
              ELSE t2
    IN  t3

_add_causal_dimension(command, temporal_items) ==
    LET c1 == IF Contains("ecosystem", command) \/ Contains("bind", command)
              THEN temporal_items \o <<"Map current ecosystem state",
                                       "Identify binding requirements",
                                       "Establish causal relationships",
                                       "Test binding integrity">>
              ELSE temporal_items
        c2 == IF Contains("facts", command)
              THEN c1 \o <<"Verify fact accuracy",
                           "Establish fact relationships",
                           "Integrate with existing knowledge",
                           "Update causal graph">>
              ELSE c1
    IN  c2

\* spatial additions whose second test is an elif
AddSpatialDimensionElif(command, causal_items) ==
    IF Contains("sf", command) \/ Contains("san francisco", command)
    THEN causal_items \o <<"Research SF neighborhoods",
                           "Map commute routes",
                           "Locate essential services",
                           "Plan area exploration">>
    ELSE IF Contains("move", command)
    THEN causal_items \o <<"Assess space requirements",
                           "Plan furniture placement",
                           "Map utility connections",
                           "Design room layouts">>
    ELSE causal_items

_add_spatial_dimension(command, causal_items) ==
    LET s1 == IF Contains("sf", command) \/ Contains("san francisco", command)
              THEN causal_items \o <<"Research SF neighborhoods",
                                     "Map commute routes",
                                     "Locate essential services",
                                     "Plan area exploration">>
              ELSE causal_items
        s2 == IF Contains("move", command)
              THEN s1 \o <<"Assess space requirements",
                           "Plan furniture placement",
                           "Map utility connections",
                           "Design room layouts">>
              ELSE s1
    IN  s2

\* generic items built from the lower-cased text
GenericDecompositionLowered(command) ==
    <<"Analyze: " \o Lower(command),
      "Break down requirements for: " \o Lower(command),
      "Identify resources needed for: " \o Lower(command),
      "Create action plan for: " \o Lower(command),
      "Define success metrics for: " \o Lower(command)>>

_generic_decomposition(command) ==
    <<"Analyze: " \o command,
      "Break down requirements for: " \o command,
      "Identify resources needed for: " \o command,
      "Create action plan for: " \o command,
      "Define success metrics for: " \o command>>

\* _decompose_4d whose temporal step appends to the list it is given (line 124
\* without .copy()), which is the rule table's own list
Decompose4dSharingBaseList(rules, command) ==
    LET command_lower == Lower(command)
        command_type == _classify_command(command_lower)
    IN  IF command_type \in DOMAIN rules
        THEN LET base_rules == rules[command_type]
                 temporal_items == _add_temporal_dimension(command_lower, base_rules)
                 causal_items == _add_causal_dimension(command_lower, temporal_items)
             IN  [items |-> _add_spatial_dimension(command_lower, causal_items),
                  rules |-> [rules EXCEPT ![command_type] = temporal_items]]
        ELSE [items |-> _generic_decomposition(command), rules |-> rules]

\* command is the text as given (a str), rules is self.decomposition_rules; the
\* result is the returned list and the rule table after the call.  base_rules is
\* the table's own list object: each of the three steps appends to a copy of the
\* list it is given (lines 124, 143, 166), so the table still holds base_rules
_decompose_4d(rules, command) ==
    LET command_lower == Lower(command)
        command_type == _classify_command(command_lower)
    IN  IF command_type \in DOMAIN rules
        THEN LET base_rules == rules[command_type]
                 temporal_items == _add_temporal_dimension(command_lower, base_rules)
                 causal_items == _add_causal_dimension(command_lower, temporal_items)
             IN  [items |-> _add_spatial_dimension(command_lower, causal_items),
                  rules |-> [rules EXCEPT ![command_type] = base_rules]]
        ELSE [items |-> _generic_decomposition(command), rules |-> rules]

\* round(x, 3) of a non-negative rational, ties to even
Round3(x) ==
    LET scaled == 1000 * x.num
        q == scaled \div x.den
        r == scaled % x.den
        up == 2 * r > x.den \/ (2 * r = x.den /\ q % 2 = 1)
    IN  Rat(IF up THEN q + 1 ELSE q, 1000)

\* the score without the cap at 1.0
ContextCoherenceUncapped(command_count, item_count) ==
    Round3(Rat(command_count * item_count, 10))

\* min((command_count * item_count) / 10.0, 1.0), rounded
ContextCoherence(command_count, item_count) ==
    Round3(RatMin(Rat(command_count * item_count, 10), One))

----------------------------------------------------------------------------
(* CognitiveOrchestrator: contexts.  self.contexts maps a context id to a  *)
(* dict object; the model keeps the objects in heap and the references in  *)
(* contexts, since a running process() holds on to the object it looked up. *)

Threads == {"handler1", "handler2"}

IdleFrame == [pc |-> "idle"]

\* the references held by contexts and by running calls
Referenced(ctxs, fr) ==
    {ctxs.at[k] : k \in KeySet(ctxs)}
      \cup {fr[t].d : t \in {u \in DOMAIN fr : fr[u].pc = "store"}}

\* reference counting: an object nothing refers to is freed
Collect(ctxs, hp, fr) == [r \in DOMAIN hp \cap Referenced(ctxs, fr) |-> hp[r]]

\* the address of a newly allocated dict object
NewRef(hp) == CHOOSE r \in 0..Cardinality(DOMAIN hp) : r \notin DOMAIN hp

PyNone == [type |-> "NoneType", val |-> "None"]

\* a call of process(command, context_id) about to execute its first statement
ProcessFrame(command, context_id) ==
    [pc |-> "check", op |-> "process", command |-> command, context_id |-> context_id]

Finish(o, f, now, status, value) ==
    [contexts |-> o.contexts, heap |-> o.heap, decomposition_rules |-> o.decomposition_rules,
     clock |-> now,
     frame |-> [pc |-> "done", op |-> f.op, command |-> f.command,
                context_id |-> f.context_id, status |-> status, value |-> value]]

Goto(o, f, now, pc, extra) ==
    [contexts |-> o.contexts, heap |-> o.heap, decomposition_rules |-> o.decomposition_rules,
     clock |-> now,
     frame |-> Merge(Merge(f, extra), [pc |-> pc])]

\* one statement of process(), for the call with frame f, on o = [contexts, heap];
\* the interpreter may switch threads between the read and the write of +=
ProcessStep(o, f, now) ==
    LET id == f.context_id
        has == DictHas(o.contexts, id)
        obj == o.contexts.at[id]
    IN  CASE f.pc = "check" ->          \* if context_id not in self.contexts
               Goto(o, f, now, IF has THEN "load" ELSE "create", <<>>)
          [] f.pc = "create" ->         \* self.contexts[context_id] = {...}
               LET r == NewRef(o.heap)
                   fresh == [created |-> IsoFormat(now), commands_processed |-> 0,
                             coherence_score |-> Zero]
               IN  Goto([o EXCEPT !.contexts = DictSet(o.contexts, id, r),
                                   !.heap = [x \in DOMAIN o.heap \cup {r} |->
                                               IF x = r THEN fresh ELSE o.heap[x]]],
                        f, now + 1, "load", <<>>)
          [] f.pc = "load" ->           \* ... ["commands_processed"] += 1: the read
               IF ~has THEN Finish(o, f, now, "raised", "KeyError")
               ELSE Goto(o, f, now, "store",
                         [d |-> obj, v |-> o.heap[obj]["commands_processed"]])
          [] f.pc = "store" ->          \* ... ["commands_processed"] += 1: the write
               Goto([o EXCEPT !.heap[f.d] = Merge(@, [commands_processed |-> f.v + 1])],
                    f, now, "last_command", <<>>)
          [] f.pc = "last_command" ->   \* self.contexts[context_id]["last_command"] = command
               IF ~has THEN Finish(o, f, now, "raised", "KeyError")
               ELSE Goto([o EXCEPT !.heap[obj] = Merge(@, [last_command |-> f.command])],
                         f, now, "last_processed", <<>>)
          [] f.pc = "last_processed" -> \* ... ["last_processed"] = datetime.now().isoformat()
               IF ~has THEN Finish(o, f, now + 1, "raised", "KeyError")
               ELSE Goto([o EXCEPT !.heap[obj] =
                                      Merge(@, [last_processed |-> IsoFormat(now)])],
                         f, now + 1, "decompose", <<>>)
          [] f.pc = "decompose" ->      \* decomposed = self._decompose_4d(command)
               IF ~IsStr(f.command)     \* command.lower()
               THEN Finish(o, f, now, "raised", "AttributeError")
               ELSE LET d == _decompose_4d(o.decomposition_rules, f.command.val)
                    IN  Goto([o EXCEPT !.decomposition_rules = d.rules], f, now,
                             "coherence", [decomposed |-> d.items])
          [] f.pc = "coherence" ->      \* coherence = self._calculate_context_coherence(...)
               Goto(o, f, now, "set_coherence",
                    [coherence |->
                       IF ~has THEN Zero
                       ELSE ContextCoherence(o.heap[obj]["commands_processed"],
                                             Len(f.decomposed))])
          [] f.pc = "set_coherence" ->  \* self.contexts[context_id]["coherence_score"] = coherence
               IF ~has THEN Finish(o, f, now, "raised", "KeyError")
               ELSE Finish([o EXCEPT !.heap[obj] = Merge(@, [coherence_score |-> f.coherence])],
                           f, now, "ok", f.decomposed)

\* a call of clear_context(context_id) about to execute its first statement
ClearFrame(context_id) ==
    [pc |-> "clear_check", op |-> "clear_context", command |-> PyNone,
     context_id |-> context_id]

\* clear_context that reports success and deletes nothing
ClearStepKeeping(o, f, now) ==
    Finish(o, f, now, "ok", DictHas(o.contexts, f.context_id))

\* clear_context as self.contexts.pop(context_id, None); return True
ClearStepAlwaysTrue(o, f, now) ==
    Finish([o EXCEPT !.contexts = DictDel(o.contexts, f.context_id)], f, now, "ok", TRUE)

\* clear_context as self.contexts.clear()
ClearStepAll(o, f, now) ==
    IF DictHas(o.contexts, f.context_id)
    THEN Finish([o EXCEPT !.contexts = EmptyDict], f, now, "ok", TRUE)
    ELSE Finish(o, f, now, "ok", FALSE)

ClearStep(o, f, now) ==
    LET id == f.context_id
        has == DictHas(o.contexts, id)
    IN  CASE f.pc = "clear_check" ->    \* if context_id in self.contexts
               IF has THEN Goto(o, f, now, "clear_del", <<>>)
               ELSE Finish(o, f, now, "ok", FALSE)
          [] f.pc = "clear_del" ->      \* del self.contexts[context_id]; return True
               IF ~has THEN Finish(o, f, now, "raised", "KeyError")
               ELSE Finish([o EXCEPT !.contexts = DictDel(o.contexts, id)],
                           f, now, "ok", TRUE)

\* process() whose += 1 never writes the counter back
StepLosingIncrement(o, f, now) ==
    IF f.op = "process" /\ f.pc = "store" THEN Goto(o, f, now, "last_command", <<>>)
    ELSE IF f.op = "process" THEN ProcessStep(o, f, now) ELSE ClearStep(o, f, now)

Step(o, f, now) ==
    IF f.op = "process" THEN ProcessStep(o, f, now) ELSE ClearStep(o, f, now)

\* a call run from frame f to its end with no other call in between
RECURSIVE Run(_, _, _)
Run(o, f, now) ==
    IF f.pc = "done"
    THEN [contexts |-> o.contexts, heap |-> o.heap,
          decomposition_rules |-> o.decomposition_rules, clock |-> now, frame |-> f]
    ELSE LET n == Step(o, f, now)
         IN  Run([contexts |-> n.contexts, heap |-> n.heap,
                  decomposition_rules |-> n.decomposition_rules], n.frame, n.clock)

process(o, command, context_id, now) == Run(o, ProcessFrame(command, context_id), now)

clear_context(o, context_id, now) == Run(o, ClearFrame(context_id), now)

\* self.contexts.get(context_id, {})
GetContextOrEmpty(o, context_id) ==
    IF DictHas(o.contexts, context_id)
    THEN PyDict(o.heap[o.contexts.at[context_id]])
    ELSE PyDict(<<>>)

\* self.contexts.get(context_id)
get_context(o, context_id) ==
    IF DictHas(o.contexts, context_id)
    THEN PyDict(o.heap[o.contexts.at[context_id]])
    ELSE PyNone

\* the contexts dictionary with each reference replaced by the object's record
ContextsValue(o) ==
    [keys |-> o.contexts.keys,
     at   |-> [k \in KeySet(o.contexts) |-> o.heap[o.contexts.at[k]]]]

list_contexts(o, now) ==
    [contexts |-> ContextsValue(o), total_contexts |-> DictLen(o.contexts),
     timestamp |-> IsoFormat(now)]

----------------------------------------------------------------------------
(* Arguments the callers pass.                                             *)

Commands == {"hello", "plan SF move", "4d gym date", "Bind birthday move"}

\* command arguments: the texts above, and a JSON number
CommandArgs == {PyStr(c) : c \in Commands} \cup {PyInt(5)}

\* facts payloads: mappings (given by their items in order) and a JSON array
FactsArgs ==
    { PyDict(<< <<"x", PyStr("hello")>> >>),
      PyDict(<< <<"mom_birthday", PyDict([content |-> "Mom's birthday moved"])>> >>),
      PyDict(<< <<"m", PyDict([content |-> "note", type |-> "temporal", attribution |-> "@me"])>>,
                <<"f087cb3b", PyStr("alias")>> >>),
      PyDict(<< <<"y", PyStr("kept")>>, <<"z", PyInt(7)>> >>),
      PyList(<<"x">>) }

\* the commands and the facts payloads sent to two agents side by side
TwinCommands == {PyStr("hello"), PyStr("plan SF move")}
TwinFacts == {PyDict(<< <<"x", PyStr("hello")>> >>)}

StartNodes == {"mom_birthday", "2cf24dba", "f087cb3b", "m", "unknown"}

ContextIds == {"ctxA", "default"}

\* command texts covering every class, every trigger of an addition, several
\* classes at once, upper case, and the empty text
DecomposeCommands ==
    { "", "Hello World", "Gym facts in SF",
      "plan SF move", "Schedule a call", "organize to relocate", "examine the plan",
      "review the facts", "STUDY TIME", "analyze merge",
      "merge ecosystem", "connect when ready",
      "4d gym date", "when in San Francisco", "transfer time",
      "Bind birthday move" }

\* the commands of the longer sequential runs
ContextCommands == {PyStr("hello"), PyStr("plan SF move"), PyStr("4d gym date"), PyInt(5)}

\* the context id and the command texts two overlapping requests carry
OverlapContextIds == {"default"}
OverlapCommands == {PyStr("hello"), PyStr("plan SF move")}

----------------------------------------------------------------------------
(* The calls on the agent, each a whole call.                              *)

Agent == [graph |-> graph, facts_db |-> facts_db]

InitialRet == [op |-> "__init__", args |-> <<>>, status |-> "ok", value |-> <<>>]

Init ==
    /\ graph = NewAgent.graph
    /\ facts_db = NewAgent.facts_db
    /\ contexts = EmptyDict
    /\ heap = <<>>
    /\ decomposition_rules = _load_decomposition_rules
    /\ frames = [t \in Threads |-> IdleFrame]
    /\ clock = 0
    /\ ret = InitialRet
    /\ built = <<>>
    /\ linked = {}
    /\ twin = [graph |-> NewAgent.graph, facts_db |-> NewAgent.facts_db,
               clock |-> 0, ret |-> InitialRet]
    /\ calls = [made |-> [id \in ContextIds |-> 0], cleared |-> {},
                last |-> [id \in ContextIds |-> PyNone]]

AgentResult(op, args, r) ==
    /\ graph' = r.graph
    /\ facts_db' = r.facts_db
    /\ clock' = r.clock
    /\ ret' = [op |-> op, args |-> args, status |-> r.status, value |-> r.value]
    /\ UNCHANGED <<contexts, heap, decomposition_rules, frames, calls, twin>>

BuildGraph(command) ==
    /\ clock < MaxClock
    /\ LET r == build_4d_graph(Agent, command, clock)
           done == r.status = "ok"
       IN  /\ AgentResult("build_4d_graph", <<command>>, r)
           /\ built' = IF done THEN Append(built, <<command.val, r.node_id>>) ELSE built
           /\ linked' = IF done THEN linked \cup EdgeCalls(r.node_id, command.val) ELSE linked

IntegrateFacts(facts_data) ==
    /\ clock < MaxClock
    /\ AgentResult("integrate_facts", <<facts_data>>, integrate_facts(Agent, facts_data, clock))
    /\ UNCHANGED <<built, linked>>

GetFacts ==
    /\ clock < MaxClock
    /\ AgentResult("get_facts", <<>>, get_facts(Agent, clock))
    /\ UNCHANGED <<built, linked>>

GetCausalChain(start_node, max_depth) ==
    /\ AgentResult("get_causal_chain", <<start_node, max_depth>>,
                   get_causal_chain(Agent, clock, start_node, max_depth))
    /\ UNCHANGED <<built, linked>>

NextAgent ==
    \/ \E command \in CommandArgs : BuildGraph(command)
    \/ \E facts_data \in FactsArgs : IntegrateFacts(facts_data)
    \/ GetFacts
    \/ \E start_node \in StartNodes, max_depth \in 0..MaxDepth :
          GetCausalChain(start_node, max_depth)

Spec == Init /\ [][NextAgent]_vars

----------------------------------------------------------------------------
(* Two agents, each receiving its own sequence of calls.                   *)

TwinAgent == [graph |-> twin.graph, facts_db |-> twin.facts_db]

TwinResult(op, args, r) ==
    /\ twin' = [graph |-> r.graph, facts_db |-> r.facts_db, clock |-> r.clock,
                ret |-> [op |-> op, args |-> args, status |-> r.status, value |-> r.value]]
    /\ UNCHANGED <<graph, facts_db, contexts, heap, decomposition_rules, frames, clock, built,
                   linked, calls, ret>>

TwinBuildGraph(command) ==
    /\ twin.clock < MaxClock
    /\ TwinResult("build_4d_graph", <<command>>, build_4d_graph(TwinAgent, command, twin.clock))

TwinIntegrateFacts(facts_data) ==
    /\ twin.clock < MaxClock
    /\ TwinResult("integrate_facts", <<facts_data>>,
                  integrate_facts(TwinAgent, facts_data, twin.clock))

NextTwins ==
    \/ \E command \in TwinCommands : BuildGraph(command)
    \/ \E facts_data \in TwinFacts : IntegrateFacts(facts_data)
    \/ \E command \in TwinCommands : TwinBuildGraph(command)
    \/ \E facts_data \in TwinFacts : TwinIntegrateFacts(facts_data)

\* two agents side by side
SpecTwins == Init /\ [][NextTwins]_vars

----------------------------------------------------------------------------
(* The calls on the orchestrator, each a whole call.                       *)

\* CognitiveOrchestrator(): no contexts, the loaded rule table
NewOrchestrator ==
    [contexts |-> EmptyDict, heap |-> <<>>, decomposition_rules |-> _load_decomposition_rules]

Orch == [contexts |-> contexts, heap |-> heap, decomposition_rules |-> decomposition_rules]

AgentUnchanged == UNCHANGED <<graph, facts_db, built, linked, twin>>

CallMade(id, command) == [calls EXCEPT !.made[id] = @ + 1, !.last[id] = command]
ContextRemoved(id) ==
    [made |-> [calls.made EXCEPT ![id] = 0], cleared |-> calls.cleared \cup {id},
     last |-> [calls.last EXCEPT ![id] = PyNone]]

Completed(f) ==
    [op |-> f.op,
     args |-> IF f.op = "process" THEN <<f.command, f.context_id>> ELSE <<f.context_id>>,
     status |-> f.status, value |-> f.value]

ProcessCall(command, context_id) ==
    /\ LET r == process(Orch, command, context_id, clock)
       IN  /\ contexts' = r.contexts
           /\ heap' = Collect(r.contexts, r.heap, frames)
           /\ decomposition_rules' = r.decomposition_rules
           /\ clock' = r.clock
           /\ ret' = Completed(r.frame)
    /\ calls' = CallMade(context_id, command)
    /\ UNCHANGED frames
    /\ AgentUnchanged

Process(command, context_id) ==
    /\ clock < MaxClock
    /\ ProcessCall(command, context_id)

ClearContext(context_id) ==
    /\ LET r == clear_context(Orch, context_id, clock)
       IN  /\ contexts' = r.contexts
           /\ heap' = Collect(r.contexts, r.heap, frames)
           /\ ret' = Completed(r.frame)
           /\ calls' = IF r.frame.status = "ok" /\ r.frame.value
                       THEN ContextRemoved(context_id) ELSE calls
    /\ UNCHANGED <<decomposition_rules, frames, clock>>
    /\ AgentUnchanged

GetContext(context_id) ==
    /\ ret' = [op |-> "get_context", args |-> <<context_id>>, status |-> "ok",
               value |-> get_context(Orch, context_id)]
    /\ UNCHANGED <<contexts, heap, decomposition_rules, frames, clock, calls>>
    /\ AgentUnchanged

ListContextsCall ==
    /\ ret' = [op |-> "list_contexts", args |-> <<>>, status |-> "ok",
               value |-> list_contexts(Orch, clock)]
    /\ clock' = clock + 1
    /\ UNCHANGED <<contexts, heap, decomposition_rules, frames, calls>>
    /\ AgentUnchanged

ListContexts ==
    /\ clock < MaxClock
    /\ ListContextsCall

NextOrch ==
    \/ \E command \in CommandArgs, context_id \in ContextIds : Process(command, context_id)
    \/ \E context_id \in ContextIds : ClearContext(context_id)
    \/ \E context_id \in ContextIds : GetContext(context_id)
    \/ ListContexts

\* the orchestrator alone, one call at a time
SpecOrch == Init /\ [][NextOrch]_vars

\* agent and orchestrator, one call at a time
SpecAll == Init /\ [][NextAgent \/ NextOrch]_vars

\* process() over the command texts above
NextDecompose ==
    \E c \in DecomposeCommands, context_id \in ContextIds : Process(PyStr(c), context_id)

SpecDecompose == Init /\ [][NextDecompose]_vars

\* the orchestrator alone over longer call sequences, one call at a time
NextContexts ==
    \/ \E command \in ContextCommands, context_id \in ContextIds :
          clock < MaxContextClock /\ ProcessCall(command, context_id)
    \/ \E context_id \in ContextIds : ClearContext(context_id)
    \/ \E context_id \in ContextIds : GetContext(context_id)
    \/ clock < MaxContextClock /\ ListContextsCall

SpecContexts == Init /\ [][NextContexts]_vars

----------------------------------------------------------------------------
(* Request handlers sharing the one orchestrator object: a handler begins  *)
(* a call and then executes it statement by statement, interleaved with    *)
(* the other handler (no lock is taken anywhere in the orchestrator).      *)

BeginProcess(t, command, context_id) ==
    /\ frames[t].pc = "idle"
    /\ clock < MaxOverlapClock
    /\ frames' = [frames EXCEPT ![t] = ProcessFrame(command, context_id)]
    /\ calls' = CallMade(context_id, command)
    /\ UNCHANGED <<contexts, heap, decomposition_rules, clock, ret>>
    /\ AgentUnchanged

BeginClear(t, context_id) ==
    /\ frames[t].pc = "idle"
    /\ frames' = [frames EXCEPT ![t] = ClearFrame(context_id)]
    /\ UNCHANGED <<contexts, heap, decomposition_rules, clock, ret, calls>>
    /\ AgentUnchanged

HandlerStep(t) ==
    /\ frames[t].pc # "idle"
    /\ LET n == Step(Orch, frames[t], clock)
           done == n.frame.pc = "done"
           fr == [frames EXCEPT ![t] = IF done THEN IdleFrame ELSE n.frame]
       IN  /\ frames' = fr
           /\ contexts' = n.contexts
           /\ heap' = Collect(n.contexts, n.heap, fr)
           /\ decomposition_rules' = n.decomposition_rules
           /\ clock' = n.clock
           /\ ret' = IF done THEN Completed(n.frame) ELSE ret
           /\ calls' = IF done /\ n.frame.op = "clear_context"
                          /\ n.frame.status = "ok" /\ n.frame.value
                       THEN ContextRemoved(n.frame.context_id) ELSE calls
    /\ AgentUnchanged

NextOverlap ==
    \/ \E t \in Threads, command \in OverlapCommands, context_id \in OverlapContextIds :
          BeginProcess(t, command, context_id)
    \/ \E t \in Threads, context_id \in OverlapContextIds : BeginClear(t, context_id)
    \/ \E t \in Threads : HandlerStep(t)

\* the orchestrator under two overlapping request handlers
SpecOverlap == Init /\ [][NextOverlap]_vars

----------------------------------------------------------------------------
(* Properties.  ret describes the call a step has just completed, so a     *)
(* formula over ret and the other variables speaks of the state right      *)
(* after that call, and one over ret' and unprimed variables of its effect. *)

Nodes == KeySet(graph.node)
Edges == KeySet(graph.adj)
Registry == KeySet(facts_db)
BuiltIds == {built[i][2] : i \in 1..Len(built)}
BuiltTexts == {built[i][1] : i \in 1..Len(built)}

\* the step is a completed build_4d_graph
BuildStep == Len(built') = Len(built) + 1
BuiltText == built'[Len(built')][1]
BuiltId == built'[Len(built')][2]

\* a call whose argument has the wrong type
InvalidCall(r) ==
    \/ r.op \in {"process", "build_4d_graph"} /\ ~IsStr(r.args[1])
    \/ r.op = "integrate_facts" /\ r.args[1].type # "dict"

\* C1: a call of process or build_graph with a command that is not a string,
\* or of integrate_facts with a payload that is not a mapping, is rejected and
\* leaves the context map, the registry and the graph exactly as they were.
\* (Refuted by process: it creates the context and counts the command before
\* command.lower() raises.)
C1_InvalidInputLeavesStateUnchanged ==
    [][InvalidCall(ret') =>
          ret'.status = "raised" /\ UNCHANGED <<contexts, heap, graph, facts_db>>]_vars

\* C2 as stated: in every reachable state the graph's node ids are exactly
\* the registry's keys.  (Refuted by build_4d_graph, which adds the command
\* node to the graph only.)
C2_NodeSetIsRegistryKeySet == Nodes = Registry

\* C2 amended: the node ids are exactly the registry's keys together with the
\* node ids of the commands built; every registry key is a node.
C2_NodeSetIsRegistryPlusCommandNodes ==
    /\ Nodes = Registry \cup BuiltIds
    /\ Registry \subseteq Nodes
    /\ built = <<>> => Nodes = Registry

C2_Witness ==
    /\ Len(built) > 0
    /\ built[1][2] \in Nodes \ Registry
    /\ "x" \in Registry \cap Nodes

\* the records of the nodes on a path
PathRecords(path) == [j \in 1..Len(path) |-> NodeRecord(graph, path[j])]

\* C3: for a start_id present in the graph and max_depth >= 0, causal_chain
\* returns, without error, exactly one path per node reachable within
\* max_depth hops, each the records of the nodes on a shortest path to it.
\* (Refuted: the loop iterates the keys of the paths dictionary, so each
\* "path" is a node id whose characters are looked up as nodes.)
C3_CausalChainListsShortestPaths ==
    (ret.op = "get_causal_chain" /\ ret.args[1] \in Nodes) =>
        /\ ret.status = "ok"
        /\ LET paths == single_source_shortest_path(graph, ret.args[1], ret.args[2])
           IN  /\ Len(ret.value) = DictLen(paths)
               /\ \A t \in KeySet(paths) :
                     Cardinality({i \in 1..Len(ret.value) :
                                    ret.value[i] = PathRecords(paths.at[t])}) = 1

\* C4: causal_chain on a start_id that is not a node returns the empty list,
\* raises nothing, and leaves nodes, edges and registry unchanged; the id is
\* not made a node.
C4_UnknownStartReturnsEmptyList ==
    [][(ret'.op = "get_causal_chain" /\ ret'.args[1] \notin Nodes) =>
          /\ ret'.status = "ok"
          /\ ret'.value = <<>>
          /\ UNCHANGED <<graph, facts_db>>
          /\ ret'.args[1] \notin KeySet(graph'.node)]_vars

C4_Witness ==
    /\ ret.op = "get_causal_chain"
    /\ ret.args[1] = "unknown"
    /\ ret.status = "ok"
    /\ ret.value = <<>>
    /\ "unknown" \notin Nodes
    /\ DictLen(graph.adj) > 0

\* C5: when process() calls on one context id overlap, the context ends as
\* after some sequential order of them: once every handler has returned (and
\* no context was cleared), commands_processed is the number of calls made.
\* (Refuted: no lock; both calls can find the id absent, and the second
\* creation resets the counter.)
C5_OverlappingProcessCallsSerialized ==
    ((\A t \in Threads : frames[t].pc = "idle") /\ calls.cleared = {}) =>
        \A id \in ContextIds :
            calls.made[id] > 0 =>
                /\ DictHas(contexts, id)
                /\ heap[contexts.at[id]]["commands_processed"] = calls.made[id]

\* the coherence and the counts a build_graph or get_facts call reported
Reports == ret.status = "ok" /\ ret.op \in {"build_4d_graph", "get_facts"}
Reported == IF ret.op = "build_4d_graph" THEN ret.value ELSE ret.value.graph_stats

\* C6: the coherence reported by build_graph and get_facts is
\* min(edge_count / node_count, 1) of the graph at the moment of the call when
\* node_count >= 2, and 0 otherwise; it lies in [0, 1].
C6_ReportedCoherenceIsCappedRatio ==
    Reports =>
        LET n == DictLen(graph.node)
            e == DictLen(graph.adj)
            c == Reported.coherence
        IN  /\ Reported.nodes = n
            /\ Reported.edges = e
            /\ c.den > 0 /\ 0 <= c.num /\ c.num <= c.den
            /\ n < 2 => c.num = 0
            /\ (n >= 2 /\ e >= n) => c.num = c.den
            /\ (n >= 2 /\ e < n) => c.num * n = e * c.den

C6_Witness ==
    /\ Reports
    /\ ret.op = "build_4d_graph"
    /\ DictLen(graph.adj) > DictLen(graph.node)
    /\ Reported.coherence = One

\* the relation rules as the claim states them: <<target, label>> of every
\* rule one of whose keywords the lower-cased text contains
ClaimedLinks(c) ==
    LET l == Lower(c)
        has(w) == Contains(w, l)
    IN  (IF has("birthday") \/ has("date")
         THEN {<<"mom_birthday", "temporal">>} ELSE {})
        \cup (IF has("move") \/ has("plan") \/ has("gym") \/ has("sf")
              THEN {<<"gym_move", "action">>} ELSE {})
        \cup (IF has("ecosystem") \/ has("bind") \/ has("nexus") \/ has("4d")
              THEN {<<"ecosystem_bind", "system">>} ELSE {})

\* build_graph of a text not built before adds exactly the claimed edges
AddsClaimedEdges ==
    /\ KeySet(graph'.adj) = Edges \cup {<<BuiltId, l[1]>> : l \in ClaimedLinks(BuiltText)}
    /\ {<<BuiltId, l[1]>> : l \in ClaimedLinks(BuiltText)} \cap Edges = {}
    /\ \A l \in ClaimedLinks(BuiltText) :
          graph'.adj.at[<<BuiltId, l[1]>>] = [relation |-> l[2]]
    /\ \A e \in Edges : graph'.adj.at[e] = graph.adj.at[e]

\* the two examples of the claim, on a fresh agent
FreshAgentExamples ==
    graph = NewAgent.graph =>
        /\ BuiltText = "hello" =>
              /\ ret'.value.nodes = 4
              /\ ret'.value.edges = 0
              /\ ret'.value.coherence = Zero
        /\ BuiltText = "plan SF move" =>
              /\ KeySet(graph'.adj) = {<<BuiltId, "gym_move">>}
              /\ graph'.adj.at[<<BuiltId, "gym_move">>] = [relation |-> "action"]
              /\ ret'.value.coherence = Rat(1, 4)

\* C7 as stated: build_graph of a command text not submitted before adds
\* exactly one node and exactly the edges of the rules whose keywords the
\* lower-cased text contains.  (Refuted on the node count: the node id may be
\* a node already, a fact integrated under that id.)
C7_NewCommandAddsOneNodeAndRuleEdges ==
    [][(BuildStep /\ BuiltText \notin BuiltTexts) =>
          /\ DictLen(graph'.node) = DictLen(graph.node) + 1
          /\ AddsClaimedEdges
          /\ FreshAgentExamples]_vars

\* C7 amended: build_graph of a command text not submitted before adds the
\* node of the text's 8-character id, one new node unless a node of that id
\* exists already, and then none; the edges are as stated.
C7_NewCommandAddsItsNodeAndRuleEdges ==
    [][(BuildStep /\ BuiltText \notin BuiltTexts) =>
          /\ KeySet(graph'.node) = Nodes \cup {BuiltId}
          /\ DictLen(graph'.node) = DictLen(graph.node) + (IF BuiltId \in Nodes THEN 0 ELSE 1)
          /\ AddsClaimedEdges
          /\ FreshAgentExamples]_vars

C7_Witness ==
    /\ ret.op = "build_4d_graph"
    /\ ret.status = "ok"
    /\ built = << <<"hello", "2cf24dba">>, <<"4d gym date", "635928dd">> >>
    /\ Edges = {<<"635928dd", "mom_birthday">>, <<"635928dd", "gym_move">>,
                <<"635928dd", "ecosystem_bind">>}

\* C8: build_graph called again with a text built before (whatever calls lie
\* in between) uses the same node id and leaves the node count and the edge
\* set as they were just before the call.
C8_RebuildingACommandIsIdempotent ==
    [][(BuildStep /\ BuiltText \in BuiltTexts) =>
          /\ \A i \in 1..Len(built) : built[i][1] = BuiltText => built[i][2] = BuiltId
          /\ DictLen(graph'.node) = DictLen(graph.node)
          /\ KeySet(graph'.node) = Nodes
          /\ graph'.adj = graph.adj]_vars

C8_Witness ==
    /\ ret.op = "build_4d_graph"
    /\ Len(built) = 2
    /\ built[1] = built[2]
    /\ built[1][1] = "Bind birthday move"
    /\ "x" \in Nodes

NoRepeats(keys) == \A i, j \in 1..Len(keys) : keys[i] = keys[j] => i = j

\* C9: there is at most one edge per ordered (source, target) pair, and the
\* reported edge count is the number of distinct pairs ever linked.
C9_OneEdgePerOrderedPair ==
    /\ NoRepeats(graph.adj.keys)
    /\ DictLen(graph.adj) = Cardinality(linked)
    /\ Edges = linked
    /\ Reports => Reported.edges = Cardinality(linked)

C9_Witness ==
    /\ Reports
    /\ \E i, j \in 1..Len(built) : i < j /\ built[i] = built[j]
    /\ Cardinality(linked) = 3

\* C10: across every step the node set, the edge set and the registry key
\* set only grow, and the three seed ids are always in the registry and in
\* the node set.
C10_GraphAndRegistryOnlyGrow ==
    /\ [][/\ Nodes \subseteq KeySet(graph'.node)
          /\ Edges \subseteq KeySet(graph'.adj)
          /\ Registry \subseteq KeySet(facts_db')]_vars
    /\ [](SeedIds \subseteq Registry /\ SeedIds \subseteq Nodes)

C10_Witness ==
    /\ facts_db.at["mom_birthday"]["content"] = "Mom's birthday moved"
    /\ Len(built) > 0
    /\ ret.op = "integrate_facts"
    /\ SeedIds = {"mom_birthday", "gym_move", "ecosystem_bind"}

\* an integrate_facts call on a mapping whose values are strings or records
\* has just completed
IntegratedMapping ==
    /\ ret.op = "integrate_facts"
    /\ ret.args[1].type = "dict"
    /\ \A i \in 1..Len(ret.args[1].val) : ret.args[1].val[i][2].type \in {"str", "dict"}

\* C20: integrate_facts of a mapping whose values are strings or records
\* returns exactly the ids of the mapping in input order; afterwards every
\* returned id is a registry key and a graph node, its registry content is
\* the supplied content and its attribution the supplied one, or the default
\* when none was supplied; get_facts() after integrate_facts({"x": "hello"})
\* shows facts["x"].content = "hello".
C20_IntegrateFactsRegistersEveryEntry ==
    /\ IntegratedMapping =>
          LET items == ret.args[1].val
          IN  /\ ret.status = "ok"
              /\ ret.value = [i \in 1..Len(items) |-> items[i][1]]
              /\ \A i \in 1..Len(items) :
                    LET id == items[i][1]
                        given == items[i][2]
                        fact == facts_db.at[id]
                    IN  /\ id \in Registry
                        /\ id \in Nodes
                        /\ given.type = "str" =>
                              /\ fact["content"] = given.val
                              /\ fact["attribution"] = "@AxiomHive @devdollzai"
                        /\ (given.type = "dict" /\ "content" \in DOMAIN given.val) =>
                              fact["content"] = given.val["content"]
                        /\ given.type = "dict" =>
                              fact["attribution"] =
                                 (IF "attribution" \in DOMAIN given.val
                                  THEN given.val["attribution"]
                                  ELSE "@AxiomHive @devdollzai")
    /\ (ret.op = "get_facts" /\ "x" \in Registry) =>
          /\ ret.value.facts = facts_db
          /\ ret.value.facts.at["x"]["content"] = "hello"

C20_Witness ==
    /\ IntegratedMapping
    /\ ret.value = <<"m", "f087cb3b">>
    /\ facts_db.at["m"]["attribution"] = "@me"
    /\ facts_db.at["f087cb3b"]["content"] = "alias"
    /\ facts_db.at["f087cb3b"]["attribution"] = DefaultAttribution
    /\ "x" \in Registry
    /\ facts_db.at["x"]["content"] = "hello"

----------------------------------------------------------------------------
(* Properties of the orchestrator's contexts.                              *)

\* the ids of the active contexts, and the record of an active context
Active == KeySet(contexts)
Context(id) == heap[contexts.at[id]]

\* the step is a process() call on id (returned or raised)
ProcessOn(id) == calls'.made[id] = calls.made[id] + 1

\* C11: for every active context, commands_processed is the number of
\* process() calls made on its id since the context was last created (1 after
\* the first call on a fresh id, one more per call), and last_command is the
\* command of the most recent of those calls.
C11_CommandsProcessedCountsCalls ==
    /\ [](\A id \in Active :
             /\ Context(id)["commands_processed"] = calls.made[id]
             /\ calls.made[id] >= 1
             /\ Context(id)["last_command"] = calls.last[id])
    /\ [][\A id \in ContextIds :
             ProcessOn(id) =>
                /\ id \in KeySet(contexts')
                /\ heap'[contexts'.at[id]]["commands_processed"] =
                      (IF id \in Active THEN Context(id)["commands_processed"] + 1 ELSE 1)
                /\ heap'[contexts'.at[id]]["last_command"] = ret'.args[1]]_vars

C11_Witness ==
    /\ ret.op = "process"
    /\ ret.args = <<PyStr("plan SF move"), "ctxA">>
    /\ Context("ctxA")["commands_processed"] = 2
    /\ Context("ctxA")["last_command"] = PyStr("plan SF move")
    /\ calls.made["ctxA"] = 2
    /\ "ctxA" \in calls.cleared

\* C12: after every process(command, id) call that returns, the context's
\* coherence_score is min(commands_processed * len(result) / 10, 1) with the
\* already incremented count (a value with at most one decimal, which
\* rounding to 3 decimals leaves as it is); it lies in [0, 1], and with count 2
\* and a result of 5 items it is 1.0.
C12_ContextCoherenceIsCappedProduct ==
    (ret.op = "process" /\ ret.status = "ok") =>
        LET id == ret.args[2]
            n == Context(id)["commands_processed"]
            k == Len(ret.value)
            s == Context(id)["coherence_score"]
        IN  /\ id \in Active
            /\ n = calls.made[id]
            /\ s.den > 0 /\ 0 <= s.num /\ s.num <= s.den
            /\ n * k >= 10 => s = One
            /\ n * k < 10 => s.num * 10 = n * k * s.den
            /\ (n = 2 /\ k = 5) => s = One

C12_Witness ==
    /\ ret.op = "process"
    /\ ret.status = "ok"
    /\ ret.args = <<PyStr("hello"), "default">>
    /\ Context("default")["commands_processed"] = 2
    /\ Len(ret.value) = 5
    /\ Context("default")["coherence_score"] = One
    /\ "ctxA" \in Active
    /\ Context("ctxA")["coherence_score"] = Rat(7, 10)

\* the call a step completes
Called(op) == ret'.op = op
CalledOn(op, id) == ret'.op = op /\ ret'.args[IF op = "process" THEN 2 ELSE 1] = id

\* C16: a context id is absent or active: it becomes active only by a
\* process() on that id, stays active under further process(), get_context
\* and list_contexts calls, and becomes absent only by clear_context(id),
\* which removes it; a process() on an id after its clear_context creates a
\* fresh record whose commands_processed is 1.
C16_ContextIsAbsentOrActive ==
    [][\A id \in ContextIds :
          /\ (id \notin Active /\ id \in KeySet(contexts')) => CalledOn("process", id)
          /\ (id \in Active /\ id \notin KeySet(contexts')) => CalledOn("clear_context", id)
          /\ CalledOn("process", id) => id \in KeySet(contexts')
          /\ (id \in Active /\ (Called("process") \/ Called("get_context")
                                    \/ Called("list_contexts"))) =>
                id \in KeySet(contexts')
          /\ (id \in Active /\ CalledOn("clear_context", id)) => id \notin KeySet(contexts')
          /\ (id \notin Active /\ CalledOn("process", id)) =>
                heap'[contexts'.at[id]]["commands_processed"] = 1]_vars

C16_Witness ==
    /\ ret.op = "process"
    /\ ret.args[2] = "default"
    /\ "default" \in calls.cleared
    /\ "default" \in Active
    /\ Context("default")["commands_processed"] = 1
    /\ Context("default")["created"] = IsoFormat(3)

\* C17: clear_context(id) returns true if and only if id is active at the
\* time of the call, and then removes it, so it returns false on every later
\* call until id is processed again, and for ids never processed; a call that
\* returns false changes nothing.
C17_ClearReturnsWhetherActive ==
    [][\A id \in ContextIds :
          CalledOn("clear_context", id) =>
             /\ ret'.status = "ok"
             /\ ret'.value = (id \in Active)
             /\ id \notin KeySet(contexts')
             /\ ret'.value = FALSE => UNCHANGED <<contexts, heap>>]_vars

C17_Witness ==
    /\ ret.op = "clear_context"
    /\ ret.args[1] = "ctxA"
    /\ ret.value = FALSE
    /\ "ctxA" \in calls.cleared
    /\ "default" \in Active

\* C18: get_context(id) on an absent id returns None, raises nothing and
\* creates nothing: the context map is unchanged, list_contexts reports the
\* same total, and a following clear_context(id) returns false.
C18_GetContextOfAbsentIdReturnsNone ==
    [][\A id \in ContextIds :
          (CalledOn("get_context", id) /\ id \notin Active) =>
             LET after == [contexts |-> contexts', heap |-> heap',
                           decomposition_rules |-> decomposition_rules']
             IN  /\ ret'.status = "ok"
                 /\ ret'.value = PyNone
                 /\ UNCHANGED <<contexts, heap>>
                 /\ list_contexts(after, clock').total_contexts
                       = list_contexts(Orch, clock).total_contexts
                 /\ clear_context(after, id, clock').frame.value = FALSE]_vars

C18_Witness ==
    /\ ret.op = "get_context"
    /\ ret.args[1] = "ctxA"
    /\ ret.value = PyNone
    /\ "ctxA" \in calls.cleared
    /\ Active = {"default"}

\* context B is as it was: absent, or active with the same record
Untouched(B) ==
    /\ B \in Active <=> B \in KeySet(contexts')
    /\ B \in Active => heap'[contexts'.at[B]] = Context(B)

\* C19: process(c, A) changes, creates or removes no context other than A;
\* clear_context(A) removes only A; get_context and list_contexts change no
\* context.
C19_CallsTouchOnlyTheirContext ==
    [][\A A \in ContextIds, B \in ContextIds :
          /\ (CalledOn("process", A) /\ B # A) => Untouched(B)
          /\ (CalledOn("clear_context", A) /\ B # A) => Untouched(B)
          /\ (CalledOn("clear_context", A) /\ B = A) => A \notin KeySet(contexts')
          /\ (Called("get_context") \/ Called("list_contexts")) => Untouched(B)]_vars

C19_Witness ==
    /\ ret.op = "clear_context"
    /\ ret.args[1] = "ctxA"
    /\ ret.value = TRUE
    /\ Active = {"default"}
    /\ Context("default")["commands_processed"] = 2
    /\ Context("default")["last_command"] = PyStr("4d gym date")

----------------------------------------------------------------------------
(* Properties of the decomposition.                                        *)

\* a process() call on a string command has just completed
Processed == ret.op = "process" /\ IsStr(ret.args[1])
GivenText == ret.args[1].val

\* the classes in priority order with their keywords, as the claim lists them
ClassPriority ==
    << <<"planning",    <<"plan", "move", "schedule", "organize">> >>,
       <<"analysis",    <<"analyze", "examine", "study", "review">> >>,
       <<"integration", <<"integrate", "combine", "merge", "connect">> >>,
       <<"temporal",    <<"when", "time", "date", "schedule">> >> >>

\* the classes one of whose keywords the lower-cased text l contains
Hits(l) == {i \in 1..Len(ClassPriority) : AnyIn(ClassPriority[i][2], l)}

ClaimedCategory(l) ==
    IF Hits(l) = {} THEN "generic"
    ELSE ClassPriority[CHOOSE i \in Hits(l) : \A j \in Hits(l) : i <= j][1]

\* the five generic items with the text embedded as given
ClaimedGeneric(c) ==
    <<"Analyze: " \o c,
      "Break down requirements for: " \o c,
      "Identify resources needed for: " \o c,
      "Create action plan for: " \o c,
      "Define success metrics for: " \o c>>

\* C13: classification is total and first-match over planning, analysis,
\* integration, temporal, generic: every command gets the class of highest
\* priority one of whose keywords it contains (generic if none), so a command
\* containing "schedule" is planning, never temporal; the class decides the
\* five base items process() returns first.
C13_ClassificationIsFirstMatch ==
    Processed =>
        LET l == Lower(GivenText)
            category == _classify_command(l)
        IN  /\ ret.status = "ok"
            /\ category \in {"planning", "analysis", "integration", "temporal", "generic"}
            /\ category = ClaimedCategory(l)
            /\ Contains("schedule", l) => category = "planning"
            /\ IF ClaimedCategory(l) = "generic"
               THEN ret.value = ClaimedGeneric(GivenText)
               ELSE SubSeq(ret.value, 1, 5) = _load_decomposition_rules[ClaimedCategory(l)]

C13_Witness ==
    /\ Processed
    /\ GivenText = "Schedule a call"
    /\ ret.args[2] = "default"
    /\ Hits(Lower(GivenText)) = {1, 4}
    /\ ret.value = _load_decomposition_rules["planning"]
    /\ Context("default")["commands_processed"] = 2

\* xs when the condition holds, nothing otherwise
When(cond, xs) == IF cond THEN xs ELSE <<>>

\* the additions in the claim's order for the lower-cased text l; moving lists
\* the substrings that trigger the temporal additions of a move
ClaimedAdditions(l, moving) ==
    When(Contains("birthday", l),
         <<"Schedule around 2025-05-27", "Plan celebration activities">>)
    \o When(AnyIn(moving, l),
            <<"Create moving timeline", "Schedule packing and transportation">>)
    \o When(Contains("gym", l),
            <<"Research gym membership options", "Schedule gym visits and routines">>)
    \o When(Contains("ecosystem", l) \/ Contains("bind", l),
            <<"Map current ecosystem state", "Identify binding requirements",
              "Establish causal relationships", "Test binding integrity">>)
    \o When(Contains("facts", l),
            <<"Verify fact accuracy", "Establish fact relationships",
              "Integrate with existing knowledge", "Update causal graph">>)
    \o When(Contains("sf", l) \/ Contains("san francisco", l),
            <<"Research SF neighborhoods", "Map commute routes",
              "Locate essential services", "Plan area exploration">>)
    \o When(Contains("move", l),
            <<"Assess space requirements", "Plan furniture placement",
              "Map utility connections", "Design room layouts">>)

\* 1 when the condition holds, 0 otherwise
Count(cond) == IF cond THEN 1 ELSE 0

ClaimedLength(l, moving) ==
    5 + 2 * Count(Contains("birthday", l)) + 2 * Count(AnyIn(moving, l))
      + 2 * Count(Contains("gym", l))
      + 4 * Count(Contains("ecosystem", l) \/ Contains("bind", l))
      + 4 * Count(Contains("facts", l))
      + 4 * Count(Contains("sf", l) \/ Contains("san francisco", l))
      + 4 * Count(Contains("move", l))

\* process() of a classified command returns the base items of its class
\* followed by exactly the additions whose triggers the text contains
ReturnsBaseAndAdditions(moving) ==
    (Processed /\ ClaimedCategory(Lower(GivenText)) # "generic") =>
        LET l == Lower(GivenText)
        IN  /\ ret.status = "ok"
            /\ ret.value = _load_decomposition_rules[ClaimedCategory(l)] \o ClaimedAdditions(l, moving)
            /\ Len(ret.value) = ClaimedLength(l, moving)
            /\ GivenText = "plan SF move" =>
                  /\ ClaimedCategory(l) = "planning"
                  /\ Len(ret.value) >= 7

\* C14 as stated: the temporal additions are triggered by "birthday", "move"
\* and "gym", the causal ones by "ecosystem"/"bind" and "facts", the spatial
\* ones by "sf"/"san francisco" and "move"; a group is present if and only if
\* one of these occurs in the command.  (Refuted: "relocate" and "transfer"
\* trigger the temporal additions of a move as well.)
C14_AdditionsFollowListedTriggers == ReturnsBaseAndAdditions(<<"move">>)

\* C14 amended: as stated, with the temporal additions of a move triggered by
\* any of "move", "relocate", "transfer".
C14_AdditionsFollowMoveRelocateTransfer ==
    ReturnsBaseAndAdditions(<<"move", "relocate", "transfer">>)

C14_Witness ==
    /\ Processed
    /\ GivenText = "transfer time"
    /\ ret.value = _load_decomposition_rules["temporal"]
                     \o <<"Create moving timeline", "Schedule packing and transportation",
                          "Research SF neighborhoods", "Map commute routes",
                          "Locate essential services", "Plan area exploration">>

\* the classification keywords
Keywords == {ClassPriority[i][2][k] : i \in 1..4, k \in 1..4}

\* C15: process() of any string command, the empty string included, raises
\* nothing and returns at least 5 items; when the command contains no
\* classification keyword the result is exactly the 5 generic items, each
\* embedding the command text as given (original letter case).
C15_ProcessNeverFailsOrReturnsEmpty ==
    Processed =>
        /\ ret.status = "ok"
        /\ Len(ret.value) >= 5
        /\ (\A w \in Keywords : ~Contains(w, Lower(GivenText))) =>
               ret.value = ClaimedGeneric(GivenText)
        /\ GivenText = "" => ret.value[1] = "Analyze: "

C15_Witness ==
    /\ Processed
    /\ GivenText = "Hello World"
    /\ ret.status = "ok"
    /\ ret.value[5] = "Define success metrics for: Hello World"
    /\ calls.last = [ctxA |-> PyStr(""), default |-> PyStr("Hello World")]

----------------------------------------------------------------------------
(* Properties of the fact registry and the graph.                          *)

\* a mapping whose values are strings or records
ValidMapping(payload) ==
    /\ payload.type = "dict"
    /\ \A i \in 1..Len(payload.val) : payload.val[i][2].type \in {"str", "dict"}

PayloadIds(payload) == {payload.val[i][1] : i \in 1..Len(payload.val)}

\* the content an entry of a payload supplies
SuppliedContent(given) == IF given.type = "str" THEN given.val ELSE given.val["content"]

\* C21: re-integrating an id that already exists (a seed fact or an earlier
\* integrated fact) is not an error and is last-write-wins: afterwards the
\* registry holds one record for the id, with the content last written; the
\* registry key count and the graph node count grow by the new ids only (not
\* at all when every id existed), and the edges are preserved.
C21_ReintegrationIsLastWriteWins ==
    [][(ret'.op = "integrate_facts" /\ ValidMapping(ret'.args[1])) =>
          LET payload == ret'.args[1]
              ids == PayloadIds(payload)
          IN  /\ ret'.status = "ok"
              /\ NoRepeats(facts_db'.keys)
              /\ NoRepeats(graph'.node.keys)
              /\ \A i \in 1..Len(payload.val) :
                    payload.val[i][1] \in Registry =>
                       /\ facts_db'.at[payload.val[i][1]]["content"]
                             = SuppliedContent(payload.val[i][2])
                       /\ facts_db'.at[payload.val[i][1]]["timestamp"]
                             # facts_db.at[payload.val[i][1]]["timestamp"]
              /\ DictLen(facts_db') = DictLen(facts_db) + Cardinality(ids \ Registry)
              /\ DictLen(graph'.node) = DictLen(graph.node) + Cardinality(ids \ Nodes)
              /\ ids \subseteq Registry => KeySet(facts_db') = Registry
              /\ ids \subseteq Nodes => KeySet(graph'.node) = Nodes
              /\ graph'.adj = graph.adj]_vars

C21_Witness ==
    /\ ret.op = "integrate_facts"
    /\ ValidMapping(ret.args[1])
    /\ PayloadIds(ret.args[1]) = {"mom_birthday"}
    /\ facts_db.at["mom_birthday"]["content"] = "Mom's birthday moved"
    /\ DictLen(facts_db) = 3
    /\ <<"635928dd", "mom_birthday">> \in Edges

\* C22: every fact record in the registry carries a content, a timestamp, an
\* attribution and a type, and the type is one of temporal, action, system,
\* command.  (Refuted: integrate_facts stores no type unless the payload
\* supplies one.)
C22_EveryFactHasTheFourFields ==
    \A id \in Registry :
        /\ {"content", "timestamp", "attribution", "type"} \subseteq DOMAIN facts_db.at[id]
        /\ facts_db.at[id]["type"] \in {"temporal", "action", "system", "command"}

\* C23: for every id that is both a registry key and a graph node, the
\* attributes stored on the node are exactly the fields of the registry
\* record.  (Refuted: add_node merges the new attributes into the node's old
\* ones, so a field the new record lacks stays on the node.)
C23_NodeAttributesAreTheFactRecord ==
    \A id \in Registry \cap Nodes : graph.node.at[id] = facts_db.at[id]

\* C24: graph_hash reported by build_graph is a function of the current
\* node-id set only: two agents whose node-id sets are equal report the same
\* graph_hash, and build_graph on a command text already present reports the
\* same graph_hash as the call before it.  (Refuted: the hash is taken over
\* the node ids listed in insertion order, so two agents that received the
\* same commands and facts in different orders report different hashes.)
C24_GraphHashDependsOnNodeSetOnly ==
    /\ []((/\ ret.op = "build_4d_graph" /\ ret.status = "ok"
           /\ twin.ret.op = "build_4d_graph" /\ twin.ret.status = "ok"
           /\ Nodes = KeySet(twin.graph.node)) =>
              ret.value.graph_hash = twin.ret.value.graph_hash)
    /\ [][(/\ BuildStep /\ BuiltText \in BuiltTexts
           /\ ret.op = "build_4d_graph" /\ ret.status = "ok") =>
              ret'.value.graph_hash = ret.value.graph_hash]_vars

\* C25: integrate_facts is atomic: a call that fails while handling some
\* entry of the mapping has added or overwritten nothing in the registry or
\* the graph, and after a call no id of the payload is in the registry but
\* not in the graph.  (Refuted: the entries before the failing one stay.)
C25_IntegrateFactsIsAtomic ==
    /\ [][(ret'.op = "integrate_facts" /\ ret'.status = "raised") =>
              UNCHANGED <<graph, facts_db>>]_vars
    /\ []((ret.op = "integrate_facts" /\ ret.args[1].type = "dict") =>
              \A id \in PayloadIds(ret.args[1]) : id \in Registry => id \in Nodes)

\* the fields of a complete context record
ContextFields ==
    {"created", "commands_processed", "last_command", "last_processed", "coherence_score"}

\* C26: a process(command, id) call with a string command that overlaps
\* with clear_context(id) still completes without error, and once the
\* handlers have returned the context is absent or a complete record.
\* (Refuted: when the context is deleted between two statements of process(),
\* the next self.contexts[context_id] lookup raises KeyError.)
C26_ProcessSurvivesOverlappingClear ==
    /\ (ret.op = "process" /\ IsStr(ret.args[1])) => ret.status = "ok"
    /\ (\A t \in Threads : frames[t].pc = "idle") =>
          \A id \in Active :
              /\ ContextFields \subseteq DOMAIN Context(id)
              /\ Context(id)["commands_processed"] >= 1

\* the relation label fixed for each seed fact
SeedRelation == [mom_birthday |-> "temporal", gym_move |-> "action", ecosystem_bind |-> "system"]

\* every edge runs from a command node to a seed fact and carries the seed's
\* label; there are at most 3 edges per distinct command text; build_graph
\* adds no node but the command's
EdgesRunFromCommandsToSeeds ==
    /\ [](/\ \A e \in Edges :
                /\ e[1] \in BuiltIds
                /\ e[2] \in SeedIds
                /\ graph.adj.at[e] = [relation |-> SeedRelation[e[2]]]
          /\ \A id \in SeedIds : \A e \in Edges : e[1] # id
          /\ DictLen(graph.adj) <= 3 * Cardinality(BuiltTexts))
    /\ [][BuildStep => KeySet(graph'.node) = Nodes \cup {BuiltId}]_vars

\* C27 as stated: every edge runs from a command node to one of the three
\* seed facts with the label fixed for its target; seed facts and integrated
\* facts have no outgoing edges; the edge count is at most 3 times the number
\* of distinct command texts; linking never materializes a node.  (Refuted for
\* an integrated fact whose id is the id of a built command.)
C27_OnlyCommandNodesHaveOutgoingEdges ==
    /\ EdgesRunFromCommandsToSeeds
    /\ [](\A id \in Registry : \A e \in Edges : e[1] # id)

\* C27 amended: as stated, with the integrated facts that have no outgoing
\* edge being those whose id is not the id of a built command.
C27_OnlyCommandIdsHaveOutgoingEdges ==
    /\ EdgesRunFromCommandsToSeeds
    /\ [](\A id \in Registry \ BuiltIds : \A e \in Edges : e[1] # id)

C27_Witness ==
    /\ "f087cb3b" \in Registry
    /\ "x" \in Registry
    /\ Edges = {<<"f087cb3b", "gym_move">>}
    /\ BuiltTexts = {"plan SF move"}


----------------------------------------------------------------------------
(* Properties of the coherence score over a context's lifetime.            *)

\* C28: within one lifetime of a context, every process() call on its id
\* leaves a coherence_score that is not below the score before the call, that
\* is at least 0.5 (already after the first call), and that is exactly 1.0
\* when the call is the second or a later one of the lifetime, whatever the
\* command is.
C28_CoherenceRisesToOneWithinALifetime ==
    [][\A id \in ContextIds :
          ProcessOn(id) =>
             /\ id \in KeySet(contexts')
             /\ LET s == heap'[contexts'.at[id]]["coherence_score"]
                IN  /\ id \in Active => RatLeq(Context(id)["coherence_score"], s)
                    /\ RatLeq(Rat(1, 2), s)
                    /\ calls'.made[id] >= 2 => s = One]_vars

----------------------------------------------------------------------------
(* Properties of the rule table.                                           *)

\* C29: the list process(command, context_id) returns depends only on the
\* command text: whatever calls the orchestrator has served, it is the list a
\* newly constructed orchestrator returns for that text under any context id;
\* the rule table is the loaded one in every state (no call modifies a base
\* list), and a command repeated right after itself does not return a longer
\* list than before.
C29_ProcessResultDependsOnCommandOnly ==
    /\ [](decomposition_rules = _load_decomposition_rules)
    /\ []((ret.op = "process" /\ ret.status = "ok") =>
             \A id \in ContextIds :
                ret.value = process(NewOrchestrator, ret.args[1], id, 0).frame.value)
    /\ [][(ret.op = "process" /\ ret.status = "ok" /\ ret'.op = "process"
             /\ ret'.args[1] = ret.args[1]) =>
                /\ ret'.status = "ok"
                /\ Len(ret'.value) <= Len(ret.value)]_vars

C29_Witness ==
    /\ ret.op = "process"
    /\ ret.status = "ok"
    /\ ret.args = <<PyStr("plan SF move"), "ctxA">>
    /\ Len(ret.value) = 15
    /\ "default" \in Active
    /\ Context("default")["last_command"] = PyStr("plan SF move")
    /\ "ctxA" \in calls.cleared
    /\ Len(decomposition_rules["planning"]) = 5

----------------------------------------------------------------------------
(* Frame of the graph operations.                                          *)

\* C30: integrate_facts leaves the edges (pairs and their records) as they
\* were, so the coherence after it is at most the coherence before it;
\* build_4d_graph leaves the fact registry as it was; get_facts and
\* get_causal_chain change neither the nodes, the edges nor the registry.
\* This holds whether the call returns or raises.
C30_GraphOperationsKeepTheirFrame ==
    [][/\ Called("integrate_facts") =>
             /\ graph'.adj = graph.adj
             /\ RatLeq(_calculate_coherence(graph'), _calculate_coherence(graph))
       /\ Called("build_4d_graph") => facts_db' = facts_db
       /\ (Called("get_facts") \/ Called("get_causal_chain")) =>
             UNCHANGED <<graph, facts_db>>]_vars

C30_Witness ==
    /\ ret.op = "integrate_facts"
    /\ ret.status = "ok"
    /\ ret.value = <<"x">>
    /\ Edges = {<<"f087cb3b", "gym_move">>}
    /\ Cardinality(Nodes) = 5
    /\ _calculate_coherence(graph) = Rat(1, 5)

============================================================================
